---- MODULE Spec2Model ----
(***************************************************************************)
(* A model of CurrencyInfo (dist/currencyinfo.mjs): the profile cache, the *)
(* derivation of a profile from the runtime's number formatter, the        *)
(* per-profile strip / format / symbol locator, and detect.                *)
(*                                                                         *)
(* Strings are sequences of characters, a character being a one-element    *)
(* TLA+ string; the two no-break spaces are the tokens NBSP (U+00A0) and   *)
(* NNBSP (U+202F).  Currency codes, locale tags and cache keys are TLA+    *)
(* strings, concatenated as the code concatenates them.                    *)
(*                                                                         *)
(* Numbers are exact decimals [nan, neg, ip, fp]: the integer digits       *)
(* without leading zeros and the fraction digits without trailing zeros.   *)
(* Within the lengths used here (at most 15 significant digits) a double   *)
(* and its shortest decimal rendering determine each other, so this is     *)
(* what Number() and String() compute.  The characters e, E, x, I, n, f    *)
(* are not in the alphabet, so exponents, hex literals and Infinity do not *)
(* arise.                                                                  *)
(***************************************************************************)
EXTENDS Integers, Sequences, FiniteSets, TLC

VARIABLES cache, nextId, last

vars == <<cache, nextId, last>>

----------------------------------------------------------------------------
(* Bounds of the model *)

\* objects a behaviour of the cache specification may allocate
MaxObjects == 4
\* longest integer part of an amount handed to format
MaxIntDigits == 5
\* longest fraction of an amount handed to format
MaxFracDigits == 3

----------------------------------------------------------------------------
(* Characters and strings *)

NBSP == "NBSP"

NNBSP == "NNBSP"

\* U+20AC, the euro sign
EURO == "EURO"

SP == " "

DigitChars == <<"0", "1", "2", "3", "4", "5", "6", "7", "8", "9">>

IsDigit(c) == \E i \in 1..10 : DigitChars[i] = c

\* StrWhiteSpaceChar: Number() skips these at both ends of the string
WhiteSpace == {SP, NBSP, NNBSP}

RECURSIVE Concat(_)
Concat(ss) == IF ss = <<>> THEN <<>> ELSE Head(ss) \o Concat(Tail(ss))

\* String.prototype.normalize('NFKC') on the characters of the model: the
\* no-break spaces have the compatibility decomposition U+0020
NFKCChar(c) == IF c \in {NBSP, NNBSP} THEN SP ELSE c

normalizeNFKC(s) == [i \in 1..Len(s) |-> NFKCChar(s[i])]

\* the characters escapeRegExp prefixes with a backslash
RegExpSpecial ==
  {".", "*", "+", "?", "^", "$", "{", "}", "(", ")", "|", "[", "]", "\\"}

RECURSIVE escapeRegExp(_)
escapeRegExp(s) ==
  IF s = <<>> THEN <<>>
  ELSE (IF Head(s) \in RegExpSpecial THEN <<"\\", Head(s)>> ELSE <<Head(s)>>)
       \o escapeRegExp(Tail(s))

\* The characters a pattern source stands for once the engine has read its
\* escapes: a backslash makes the next character a literal.
RECURSIVE PatternChars(_)
PatternChars(src) ==
  IF src = <<>> THEN <<>>
  ELSE IF Head(src) = "\\" /\ Len(src) >= 2
       THEN <<src[2]>> \o PatternChars(Tail(Tail(src)))
       ELSE <<Head(src)>> \o PatternChars(Tail(src))

\* new RegExp(`[${src}]`, 'g'): any one character of the class
ClassRegex(src) ==
  [kind |-> "class", chars |-> {PatternChars(src)[i] : i \in 1..Len(PatternChars(src))}]

\* new RegExp(src, 'g'): the literal character sequence
LiteralRegex(src) == [kind |-> "literal", lit |-> PatternChars(src)]

StartsWith(s, lit) ==
  /\ Len(lit) <= Len(s)
  /\ \A i \in 1..Len(lit) : s[i] = lit[i]

\* does the regex match at the head of s, and how many characters
MatchLen(re, s) ==
  IF s = <<>> THEN 0
  ELSE IF re.kind = "class"
       THEN (IF Head(s) \in re.chars THEN 1 ELSE 0)
       ELSE (IF re.lit # <<>> /\ StartsWith(s, re.lit) THEN Len(re.lit) ELSE 0)

\* String.prototype.replace(re, rep) with a global regex
RECURSIVE Replace(_, _, _)
Replace(s, re, rep) ==
  IF s = <<>> THEN <<>>
  ELSE IF MatchLen(re, s) > 0
       THEN rep \o Replace(SubSeq(s, MatchLen(re, s) + 1, Len(s)), re, rep)
       ELSE <<Head(s)>> \o Replace(Tail(s), re, rep)

\* string.match(re)?.length ?? 0 with a global regex
RECURSIVE MatchCount(_, _)
MatchCount(s, re) ==
  IF s = <<>> THEN 0
  ELSE IF MatchLen(re, s) > 0
       THEN 1 + MatchCount(SubSeq(s, MatchLen(re, s) + 1, Len(s)), re)
       ELSE MatchCount(Tail(s), re)

\* String.prototype.indexOf(needle): 0-based, -1 when absent
RECURSIVE IndexFrom(_, _, _)
IndexFrom(s, needle, at) ==
  IF at + Len(needle) > Len(s) THEN -1
  ELSE IF StartsWith(SubSeq(s, at + 1, Len(s)), needle) THEN at
       ELSE IndexFrom(s, needle, at + 1)

indexOf(s, needle) == IndexFrom(s, needle, 0)

----------------------------------------------------------------------------
(* Numbers: Number(string) and String(number) *)

NaN == [nan |-> TRUE, neg |-> FALSE, ip |-> <<"0">>, fp |-> <<>>]

RECURSIVE StripLeadingZeros(_)
StripLeadingZeros(ds) ==
  IF Len(ds) > 1 /\ Head(ds) = "0" THEN StripLeadingZeros(Tail(ds)) ELSE ds

RECURSIVE StripTrailingZeros(_)
StripTrailingZeros(ds) ==
  IF ds # <<>> /\ ds[Len(ds)] = "0"
  THEN StripTrailingZeros(SubSeq(ds, 1, Len(ds) - 1))
  ELSE ds

Num(neg, ip, fp) ==
  [nan |-> FALSE, neg |-> neg,
   ip |-> StripLeadingZeros(IF ip = <<>> THEN <<"0">> ELSE ip),
   fp |-> StripTrailingZeros(fp)]

isNaN(x) == x.nan

IsZero(x) == ~x.nan /\ x.ip = <<"0">> /\ x.fp = <<>>

\* the == and === of two numbers: NaN equals nothing, -0 equals +0
NumEq(a, b) ==
  /\ ~a.nan /\ ~b.nan
  /\ a.ip = b.ip /\ a.fp = b.fp
  /\ (a.neg = b.neg \/ IsZero(a))

RECURSIVE TrimLeft(_)
TrimLeft(s) ==
  IF s # <<>> /\ Head(s) \in WhiteSpace THEN TrimLeft(Tail(s)) ELSE s

RECURSIVE TrimRight(_)
TrimRight(s) ==
  IF s # <<>> /\ s[Len(s)] \in WhiteSpace
  THEN TrimRight(SubSeq(s, 1, Len(s) - 1))
  ELSE s

\* the position of the first "." in s, or Len(s) + 1
RECURSIVE DotAt(_, _)
DotAt(s, i) == IF i > Len(s) \/ s[i] = "." THEN i ELSE DotAt(s, i + 1)

\* StrUnsignedDecimalLiteral without exponent: digits, at most one ".",
\* at least one digit
UnsignedLiteral(s) ==
  LET d == DotAt(s, 1)
      ip == SubSeq(s, 1, d - 1)
      fp == SubSeq(s, d + 1, Len(s))
  IN  /\ \A i \in 1..Len(ip) : IsDigit(ip[i])
      /\ \A i \in 1..Len(fp) : IsDigit(fp[i])
      /\ Len(ip) + Len(fp) >= 1

\* Number(string): white space trimmed, the empty string is 0, an optional
\* sign, a decimal literal; anything else is NaN
Number(s) ==
  LET t == TrimRight(TrimLeft(s))
      signed == t # <<>> /\ Head(t) \in {"+", "-"}
      body == IF signed THEN Tail(t) ELSE t
      d == DotAt(body, 1)
  IN  IF t = <<>> THEN Num(FALSE, <<"0">>, <<>>)
      ELSE IF UnsignedLiteral(body)
           THEN Num(signed /\ Head(t) = "-",
                    SubSeq(body, 1, d - 1), SubSeq(body, d + 1, Len(body)))
           ELSE NaN

\* String(number): "NaN", no sign on zero, the shortest decimal
NumberToString(x) ==
  IF x.nan THEN <<"N", "a", "N">>
  ELSE (IF x.neg /\ ~IsZero(x) THEN <<"-">> ELSE <<>>)
       \o x.ip
       \o (IF x.fp = <<>> THEN <<>> ELSE <<".">> \o x.fp)

\* values handed to strip, format, the locator and detect are tagged with
\* their JavaScript type
StrV(s) == [t |-> "string", v |-> s]

NumV(x) == [t |-> "number", v |-> x]

PartsV(ps) == [t |-> "array", v |-> ps]

\* String(value) of a string or a number
String(val) == IF val.t = "number" THEN NumberToString(val.v) ELSE val.v

----------------------------------------------------------------------------
(* The runtime's Intl, as far as the class uses it *)

\* Intl.supportedValuesOf('currency'), the codes of the model
SupportedCurrencies == {"USD", "CAD", "PAB", "EUR"}

\* Intl.getCanonicalLocales(tag)[0] for the well-formed tags of the model:
\* case is normalised; a tag outside the domain ("en_US") is a RangeError
CanonicalLocale ==
  [tag \in {"en-US", "en-us", "en-CA", "fr-CA", "fr-ca", "fr-US", "es-PA",
             "de-DE", "US"} |->
     CASE tag \in {"en-US", "en-us"} -> "en-US"
       [] tag = "es-PA" -> "es-PA"
       [] tag = "de-DE" -> "de-DE"
       [] tag = "en-CA" -> "en-CA"
       [] tag \in {"fr-CA", "fr-ca"} -> "fr-CA"
       [] tag = "fr-US" -> "fr-US"
       [] OTHER -> "us"]

IsWellFormedLocale(tag) == tag \in DOMAIN CanonicalLocale

\* The locale data new Intl.NumberFormat(locale, {style: 'currency'}) resolves
\* to: fr-CA groups with U+00A0, fr (which fr-US falls back to) with U+202F,
\* de-DE with a full stop; all three have the decimal comma and put the
\* symbol last behind a U+00A0; es-PA formats as en-US does; a locale
\* without data of its own resolves to the runtime's default, en-US.
LocaleData(locale) ==
  CASE locale = "fr-CA" ->
         [group |-> <<NBSP>>, decimal |-> <<",">>, symbolFirst |-> FALSE]
    [] locale = "fr-US" ->
         [group |-> <<NNBSP>>, decimal |-> <<",">>, symbolFirst |-> FALSE]
    [] locale = "de-DE" ->
         [group |-> <<".">>, decimal |-> <<",">>, symbolFirst |-> FALSE]
    [] OTHER ->
         [group |-> <<",">>, decimal |-> <<".">>, symbolFirst |-> TRUE]

\* currencyDisplay: 'symbol'; the euro's symbol is its sign in every locale
\* of the model; the balboa's symbol in es-PA is "B/.", which
\* ends in the locale's decimal separator
CurrencySymbol(locale, currency) ==
  CASE currency = "EUR" -> <<EURO>>
    [] currency = "PAB" /\ locale = "es-PA" -> <<"B", "/", ".">>
    [] currency = "PAB" /\ locale # "es-PA" -> <<"P", "A", "B">>
    [] locale = "fr-CA" /\ currency = "CAD" -> <<"$">>
    [] locale = "fr-CA" /\ currency = "USD" -> <<"$", NBSP, "U", "S">>
    [] locale = "fr-US" /\ currency = "CAD" -> <<"$", "C", "A">>
    [] locale = "fr-US" /\ currency = "USD" -> <<"$", "U", "S">>
    [] locale = "en-CA" /\ currency = "CAD" -> <<"$">>
    [] locale = "en-CA" /\ currency = "USD" -> <<"U", "S", "$">>
    [] locale # "en-CA" /\ locale # "fr-CA" /\ locale # "fr-US"
         /\ currency = "CAD" -> <<"C", "A", "$">>
    [] OTHER -> <<"$">>

DigitIndex(c) == CHOOSE i \in 1..10 : DigitChars[i] = c

\* add one to a digit sequence
RECURSIVE Incr(_)
Incr(ds) ==
  IF ds = <<>> THEN <<"1">>
  ELSE IF ds[Len(ds)] = "9"
       THEN Incr(SubSeq(ds, 1, Len(ds) - 1)) \o <<"0">>
       ELSE SubSeq(ds, 1, Len(ds) - 1) \o <<DigitChars[DigitIndex(ds[Len(ds)]) + 1]>>

\* the digits of x in hundredths, rounded half away from zero (the
\* formatter's roundingMode 'halfExpand' at two fraction digits)
RoundedHundredths(x) ==
  LET fp3 == x.fp \o <<"0", "0", "0">>
      base == x.ip \o SubSeq(fp3, 1, 2)
  IN  IF DigitIndex(fp3[3]) >= 6 THEN Incr(base) ELSE base

RECURSIVE GroupParts(_, _)
GroupParts(ip, g) ==
  IF Len(ip) <= 3 THEN <<[type |-> "integer", value |-> ip]>>
  ELSE GroupParts(SubSeq(ip, 1, Len(ip) - 3), g)
       \o <<[type |-> "group", value |-> g],
            [type |-> "integer", value |-> SubSeq(ip, Len(ip) - 2, Len(ip))]>>

\* formatter.formatToParts(x); a leading symbol that does not end in a
\* symbol character is set off from the digits by a U+00A0
formatToParts(locale, currency, x) ==
  LET d == LocaleData(locale)
      h == RoundedHundredths(x)
      number ==
        IF x.nan THEN <<[type |-> "nan", value |-> <<"N", "a", "N">>]>>
        ELSE GroupParts(SubSeq(h, 1, Len(h) - 2), d.group)
             \o <<[type |-> "decimal", value |-> d.decimal],
                  [type |-> "fraction", value |-> SubSeq(h, Len(h) - 1, Len(h))]>>
      sign == IF ~x.nan /\ x.neg
              THEN <<[type |-> "minusSign", value |-> <<"-">>]>> ELSE <<>>
      symbol == <<[type |-> "currency", value |-> CurrencySymbol(locale, currency)]>>
      spacing == IF CurrencySymbol(locale, currency)[Len(CurrencySymbol(locale, currency))] = "$"
                 THEN <<>> ELSE <<[type |-> "literal", value |-> <<NBSP>>]>>
  IN  IF d.symbolFirst
      THEN sign \o symbol \o spacing \o number
      ELSE sign \o number \o <<[type |-> "literal", value |-> <<NBSP>>]>> \o symbol

\* formatter.format(x): the parts' values joined
formatterFormat(locale, currency, x) ==
  LET ps == formatToParts(locale, currency, x)
  IN  Concat([i \in 1..Len(ps) |-> ps[i].value])

----------------------------------------------------------------------------
(* A profile: the instance the constructor builds *)

\* Array.prototype.findIndex: 0-based, -1 when no element satisfies
RECURSIVE FindType(_, _, _)
FindType(ps, type, at) ==
  IF at >= Len(ps) THEN -1
  ELSE IF ps[at + 1].type = type THEN at ELSE FindType(ps, type, at + 1)

\* parts.find(p => p.type == type)?.value ?? dflt
FirstValue(ps, type, dflt) ==
  IF FindType(ps, type, 0) = -1 THEN dflt ELSE ps[FindType(ps, type, 0) + 1].value

\* the reference value 123456789.123 the constructor renders
ReferenceNumber ==
  Num(FALSE, <<"1", "2", "3", "4", "5", "6", "7", "8", "9">>, <<"1", "2", "3">>)

\* parts.filter(part => part?.type && part?.value)
ValidParts(ps) == SelectSeq(ps, LAMBDA p : p.type # "" /\ p.value # <<>>)

Classify(position, length) ==
  IF position = 0 THEN "leading"
  ELSE IF position = length - 1 THEN "trailing"
       ELSE IF position # -1 THEN "within"
            ELSE "missing"

\* symbolPosition(numberOrStringOrParts), closed over the profile's symbol
symbolPosition(symbol, val) ==
  IF val.t = "array"
  THEN Classify(FindType(ValidParts(val.v), "currency", 0), Len(ValidParts(val.v)))
  ELSE Classify(indexOf(String(val), symbol), Len(String(val)))

\* what Object.assign puts on the new instance, given the parts of the
\* reference value; id is the object's identity
Instance(id, currency, locale, parts) ==
  [id |-> id, currency |-> currency, locale |-> locale,
   separators |-> [group |-> FirstValue(parts, "group", <<",">>),
                   decimal |-> FirstValue(parts, "decimal", <<".">>),
                   symbol |-> FirstValue(parts, "currency", <<"$">>)],
   position |-> symbolPosition(FirstValue(parts, "currency", <<"$">>), PartsV(parts))]

\* the constructor past its validations: the formatter for the canonical
\* locale, the parts of the reference value, the instance
Derive(id, currency, locale) ==
  Instance(id, currency, locale, formatToParts(locale, currency, ReferenceNumber))

\* regexSeparators.group()
regexGroup(P) == ClassRegex(escapeRegExp(normalizeNFKC(P.separators.group)))

\* regexSeparators.symbol()
regexSymbol(P) ==
  IF Len(P.separators.symbol) < 2
  THEN ClassRegex(escapeRegExp(normalizeNFKC(P.separators.symbol)))
  ELSE LiteralRegex(escapeRegExp(normalizeNFKC(P.separators.symbol)))

\* regexSeparators.decimal()
regexDecimal(P) == ClassRegex(escapeRegExp(P.separators.decimal))

\* info.strip(numberOrString)
strip(P, val) ==
  Number(Replace(Replace(Replace(String(val), regexGroup(P), <<>>),
                         regexDecimal(P), <<".">>),
                 regexSymbol(P), <<>>))

\* info.format(numberOrString)
format(P, val) == formatterFormat(P.locale, P.currency, strip(P, val))

\* info.symbol.locator(numberOrStringOrParts)
locator(P, val) == symbolPosition(P.separators.symbol, val)

----------------------------------------------------------------------------
(* The profile cache and the two construction entry points *)

\* dataKey = `${currency}-${locale}`
dataKey(currency, locale) == currency \o "-" \o locale

EmptyCache == [k \in {} |-> 0]

\* this[mapKey].has(dataKey)
cacheHas(m, currency, locale) == dataKey(currency, locale) \in DOMAIN m

\* CurrencyInfo.cache(currency, locale, value) with an instance as value
cacheSet(m, currency, locale, P) ==
  [k \in DOMAIN m \cup {dataKey(currency, locale)} |->
     IF k = dataKey(currency, locale) THEN P ELSE m[k]]

\* a cache whose delete branch removes nothing
cacheKeep(m, currency, locale) == m

\* CurrencyInfo.cache(currency, locale, null)
cacheDelete(m, currency, locale) ==
  [k \in DOMAIN m \ {dataKey(currency, locale)} |-> m[k]]

\* validateCurrency / validateLocale / validateRuntime, then the filter that
\* keeps the Error instances, in that order; the runtime has Intl
checkForInputErrors(currency, locale) ==
  (IF currency \in SupportedCurrencies THEN <<>> ELSE <<"TypeError">>)
  \o (IF IsWellFormedLocale(locale) THEN <<>> ELSE <<"RangeError">>)

\* the end of the constructor: the new instance P is cached under its
\* currency and its canonical locale
Constructed(m, P) ==
  [kind |-> "instance", value |-> P,
   cache |-> cacheSet(m, P.currency, P.locale, P), derived |-> TRUE]

\* new CurrencyInfo(currency, locale, doNotThrow) on cache m, id being the
\* identity of the object under construction.  kind is "instance" (value a
\* profile), "returned" (value an error, returned) or "thrown".
construct(m, id, currency, locale, doNotThrow) ==
  IF cacheHas(m, currency, locale)
  THEN [kind |-> "instance", value |-> m[dataKey(currency, locale)],
        cache |-> m, derived |-> FALSE]
  ELSE IF checkForInputErrors(currency, locale) # <<>>
       THEN [kind |-> IF doNotThrow THEN "returned" ELSE "thrown",
             value |-> Head(checkForInputErrors(currency, locale)),
             cache |-> m, derived |-> FALSE]
       ELSE Constructed(m, Derive(id, currency, CanonicalLocale[locale]))

\* CurrencyInfo.get(currency, locale, doNotThrow): new this(currency, locale)
get(m, id, currency, locale, doNotThrow) ==
  construct(m, id, currency, locale, FALSE)

----------------------------------------------------------------------------
(* detect *)

\* the denominator of a score: score fields hold sixths, 6 being 1.0
ScoreUnit == 6

\* countries.reduce(... for (const language of languages) ...)
RECURSIVE LocaleTags(_, _)
LocaleTags(languages, countries) ==
  IF countries = <<>> THEN <<>>
  ELSE [i \in 1..Len(languages) |-> languages[i] \o "-" \o Head(countries)]
       \o LocaleTags(languages, Tail(countries))

\* locales.map(locale => CurrencyInfo.get(currency, locale)): the instances
\* in the order of locales, or thrown at the first tag that get rejects.
\* MapGetNext continues after the call r for the first tag.
RECURSIVE MapGet(_, _, _, _)
RECURSIVE MapGetNext(_, _, _, _)
MapGet(m, id, currency, locales) ==
  IF locales = <<>>
  THEN [thrown |-> FALSE, infos |-> <<>>, cache |-> m, nextId |-> id]
  ELSE MapGetNext(get(m, id, currency, Head(locales), FALSE),
                  id, currency, Tail(locales))

Prepend(info, rest) == [rest EXCEPT !.infos = <<info>> \o rest.infos]

MapGetNext(r, id, currency, locales) ==
  IF r.kind # "instance"
  THEN [thrown |-> TRUE, infos |-> <<>>, cache |-> r.cache, nextId |-> id]
  ELSE Prepend(r.value,
               MapGet(r.cache, IF r.derived THEN id + 1 ELSE id, currency, locales))

\* .forEach(currencyInfo => acc[currencyInfo.locale].push(currencyInfo))
RECURSIVE PushAll(_, _)
PushAll(data, infos) ==
  IF infos = <<>> THEN data
  ELSE PushAll([data EXCEPT ![Head(infos).locale] = @ \o <<Head(infos)>>],
               Tail(infos))

\* currencies.reduce(...): data maps each locale tag to its instances; a
\* push to a tag that is no key of data is a TypeError.  CurrencyDataNext
\* continues after the map g of the first currency.
RECURSIVE CurrencyData(_, _, _, _, _)
RECURSIVE CurrencyDataNext(_, _, _, _)
CurrencyData(m, id, currencies, locales, data) ==
  IF currencies = <<>>
  THEN [thrown |-> FALSE, data |-> data, cache |-> m, nextId |-> id]
  ELSE CurrencyDataNext(MapGet(m, id, Head(currencies), locales),
                        Tail(currencies), locales, data)

CurrencyDataNext(g, currencies, locales, data) ==
  IF g.thrown \/ \E i \in 1..Len(g.infos) : g.infos[i].locale \notin DOMAIN data
  THEN [thrown |-> TRUE, data |-> data, cache |-> g.cache, nextId |-> g.nextId]
  ELSE CurrencyData(g.cache, g.nextId, currencies, locales, PushAll(data, g.infos))

\* the keys of an object in insertion order: the first occurrences
RECURSIVE Distinct(_)
Distinct(xs) ==
  IF xs = <<>> THEN <<>>
  ELSE IF \E i \in 1..(Len(xs) - 1) : xs[i] = xs[Len(xs)]
       THEN Distinct(SubSeq(xs, 1, Len(xs) - 1))
       ELSE Distinct(SubSeq(xs, 1, Len(xs) - 1)) \o <<xs[Len(xs)]>>

\* for (const currencies of Object.values(currencyData)) for (const info of
\* currencies): the instances in iteration order
InKeyOrder(data, keys) == Concat([i \in 1..Len(keys) |-> data[keys[i]]])

\* the same walk taken from the last key to the first
CandidatesLastKeyFirst(data, locales) ==
  InKeyOrder(data, [i \in 1..Len(Distinct(locales)) |->
                      Distinct(locales)[Len(Distinct(locales)) + 1 - i]])

Candidates(data, locales) == InKeyOrder(data, Distinct(locales))

\* scoreboard[locale] = entry on an object kept as its entries in key order
BoardPut(board, locale, entry) ==
  IF \E i \in 1..Len(board) : board[i].locale = locale
  THEN [i \in 1..Len(board) |->
          IF board[i].locale = locale THEN entry ELSE board[i]]
  ELSE board \o <<entry>>

Min(a, b) == IF a < b THEN a ELSE b

Max(a, b) == IF a > b THEN a ELSE b

\* points that do not deduct for a symbol found in another position
PointsNoPenalty(groups, decimals, symbols, iSymbolPosition, oSymbolPosition) ==
  (IF groups > 0 THEN 1 + (IF groups > 1 THEN 1 ELSE 0) ELSE 0)
  + (IF decimals > 0 THEN 1 + (IF decimals = 1 THEN 1 ELSE 0) ELSE 0)
  + (IF symbols > 0
     THEN 1 + (IF iSymbolPosition = oSymbolPosition THEN 1 ELSE 0)
     ELSE 0)

\* the points of the three counts and the two symbol positions
Points(groups, decimals, symbols, iSymbolPosition, oSymbolPosition) ==
  (IF groups > 0 THEN 1 + (IF groups > 1 THEN 1 ELSE 0) ELSE 0)
  + (IF decimals > 0 THEN 1 + (IF decimals = 1 THEN 1 ELSE 0) ELSE 0)
  + (IF symbols > 0
     THEN 1 + (IF iSymbolPosition = oSymbolPosition THEN 1 ELSE -1)
     ELSE 0)

\* the raw score of one candidate, before the clamp
RawScore(info, formatted, reformatted) ==
  Points(MatchCount(formatted, regexGroup(info)),
         MatchCount(formatted, regexDecimal(info)),
         MatchCount(formatted, regexSymbol(info)),
         locator(info, StrV(formatted)),
         locator(info, StrV(reformatted)))

\* Math.max(0, Math.min(6, score))
Clamp(score) == Max(0, Min(ScoreUnit, score))

\* an exact-match object whose score is past the top of the scale
ExactResultOver(info, amount, reformatted) ==
  [locale |-> info.locale, amount |-> amount, formatted |-> reformatted,
   currencyInfo |-> info, score |-> ScoreUnit + 1]

\* the object the loop returns for a candidate that reproduces the input
ExactResult(info, amount, reformatted) ==
  [locale |-> info.locale, amount |-> amount, formatted |-> reformatted,
   currencyInfo |-> info, score |-> ScoreUnit]

\* a loop body that does not count the decimal separators
PassCountingNoDecimals(info, formatted, amount, reformatted, board) ==
  IF isNaN(amount) THEN [exact |-> FALSE, board |-> board]
  ELSE IF reformatted = formatted
       THEN [exact |-> TRUE, board |-> board,
             result |-> ExactResult(info, amount, reformatted)]
       ELSE [exact |-> FALSE,
             board |-> BoardPut(board, info.locale,
                                [locale |-> info.locale,
                                 score |-> Clamp(RawScore(info, formatted, reformatted)),
                                 currencyInfo |-> info])]

\* one pass of the loop body for candidate info, amount being
\* info.strip(formatted) and reformatted info.format(amount): the candidate
\* is skipped (not a number, or more than one decimal separator), returned
\* as the exact match, or written to the scoreboard
Pass(info, formatted, amount, reformatted, board) ==
  IF isNaN(amount) THEN [exact |-> FALSE, board |-> board]
  ELSE IF reformatted = formatted
       THEN [exact |-> TRUE, board |-> board,
             result |-> ExactResult(info, amount, reformatted)]
       ELSE IF MatchCount(formatted, regexDecimal(info)) > 1
            THEN [exact |-> FALSE, board |-> board]
            ELSE [exact |-> FALSE,
                  board |-> BoardPut(board, info.locale,
                                     [locale |-> info.locale,
                                      score |-> Clamp(RawScore(info, formatted, reformatted)),
                                      currencyInfo |-> info])]

PassWith(info, formatted, amount, board) ==
  Pass(info, formatted, amount, format(info, NumV(amount)), board)

\* the candidate loop: an exact match returns at once, otherwise the
\* scoreboard is what the loop leaves
RECURSIVE Scan(_, _, _)
RECURSIVE ScanNext(_, _, _)
Scan(cands, formatted, board) ==
  IF cands = <<>> THEN [exact |-> FALSE, board |-> board]
  ELSE ScanNext(PassWith(Head(cands), formatted,
                         strip(Head(cands), StrV(formatted)), board),
                Tail(cands), formatted)

ScanNext(pass, cands, formatted) ==
  IF pass.exact THEN pass ELSE Scan(cands, formatted, pass.board)

\* what the reducer writes into the accumulator for entry e
Taken(e, formatted, amount) ==
  [locale |-> e.locale, amount |-> amount,
   formatted |-> format(e.currencyInfo, NumV(amount)),
   original |-> formatted, currencyInfo |-> e.currencyInfo, score |-> e.score]

\* a reduction that keeps the first entry with a score above 0
RECURSIVE ReduceFirstScored(_, _, _)
ReduceFirstScored(board, formatted, acc) ==
  IF board = <<>> THEN acc
  ELSE IF acc.locale = "" /\ Head(board).score > 0
       THEN ReduceFirstScored(Tail(board), formatted,
                              Taken(Head(board), formatted,
                                    strip(Head(board).currencyInfo, StrV(formatted))))
       ELSE ReduceFirstScored(Tail(board), formatted, acc)

\* a reduction in which a later entry with an equal score replaces the
\* earlier one
RECURSIVE ReduceLastOfTied(_, _, _)
ReduceLastOfTied(board, formatted, acc) ==
  IF board = <<>> THEN acc
  ELSE IF Head(board).score > 0 /\ acc.score <= Head(board).score
       THEN ReduceLastOfTied(Tail(board), formatted,
                             Taken(Head(board), formatted,
                                   strip(Head(board).currencyInfo, StrV(formatted))))
       ELSE ReduceLastOfTied(Tail(board), formatted, acc)

\* Object.entries(scoreboard).reduce(...): a locale of "" is the null the
\* accumulator starts with
RECURSIVE Reduce(_, _, _)
Reduce(board, formatted, acc) ==
  IF board = <<>> THEN acc
  ELSE IF (acc.locale = "" /\ Head(board).score > 0) \/ acc.score < Head(board).score
       THEN Reduce(Tail(board), formatted,
                   Taken(Head(board), formatted,
                         strip(Head(board).currencyInfo, StrV(formatted))))
       ELSE Reduce(Tail(board), formatted, acc)

\* the accumulator the reduction starts with
Seed(formatted) ==
  [locale |-> "", amount |-> NaN, formatted |-> <<>>, original |-> formatted,
   currencyInfo |-> [id |-> 0], score |-> 0]

\* no assume option
NoAssume == [given |-> FALSE, locale |-> "", currency |-> ""]

\* what the assume branch makes of the reduced result, info being
\* CurrencyInfo.get(assumedCurency, assumedLocale) and amount its strip
Assumed(reduced, assume, info, formatted, amount) ==
  [locale |-> assume.locale, currency |-> assume.currency, amount |-> amount,
   formatted |-> format(info, NumV(amount)), original |-> formatted,
   currencyInfo |-> info, score |-> reduced.score]

\* the assume branch, g being the outcome of its CurrencyInfo.get
AssumeWith(g, reduced, assume, formatted, cands, board, id) ==
  IF g.kind # "instance"
  THEN [kind |-> "thrown", candidates |-> cands, board |-> board,
        path |-> "assume", cache |-> g.cache, nextId |-> id]
  ELSE [kind |-> "result", candidates |-> cands, board |-> board,
        path |-> "assume",
        value |-> Assumed(reduced, assume, g.value, formatted,
                          strip(g.value, StrV(formatted))),
        cache |-> g.cache, nextId |-> IF g.derived THEN id + 1 ELSE id]

\* from the reduction on: the assume fallback and the return
Conclude(reduced, assume, formatted, cands, board, m, id) ==
  IF reduced.locale = "" /\ assume.given /\ assume.locale # "" /\ assume.currency # ""
  THEN AssumeWith(get(m, id, assume.currency, assume.locale, FALSE),
                  reduced, assume, formatted, cands, board, id)
  ELSE IF reduced.locale # ""
       THEN [kind |-> "result", value |-> reduced, candidates |-> cands,
             board |-> board, path |-> "scored", cache |-> m, nextId |-> id]
       ELSE [kind |-> "null", candidates |-> cands, board |-> board,
             path |-> "none", cache |-> m, nextId |-> id]

\* from the end of the candidate loop on
AfterScan(scan, assume, formatted, cands, m, id) ==
  IF scan.exact
  THEN [kind |-> "result", value |-> scan.result, candidates |-> cands,
        board |-> scan.board, path |-> "exact", cache |-> m, nextId |-> id]
  ELSE Conclude(Reduce(scan.board, formatted, Seed(formatted)),
                assume, formatted, cands, scan.board, m, id)

\* the candidate loop over the instances of currencyData
ScanCandidates(cands, assume, formatted, m, id) ==
  AfterScan(Scan(cands, formatted, <<>>), assume, formatted, cands, m, id)

\* from currencyData on; cd.thrown is a get that threw, or the push to a
\* missing key
AfterCurrencyData(cd, locales, assume, formatted) ==
  IF cd.thrown
  THEN [kind |-> "thrown", candidates |-> <<>>, board |-> <<>>,
        path |-> "currencyData", cache |-> cd.cache, nextId |-> cd.nextId]
  ELSE ScanCandidates(Candidates(cd.data, locales), assume, formatted,
                      cd.cache, cd.nextId)

DetectIn(m, id, formatted, options, locales) ==
  AfterCurrencyData(
    CurrencyData(m, id, options.currencies, locales,
                 [l \in {locales[i] : i \in 1..Len(locales)} |-> <<>>]),
    locales, options.assume, formatted)

\* CurrencyInfo.detect(input, options) on cache m.  kind is "result" (value
\* the object returned), "null", or "thrown"; candidates are the instances
\* the loop walks, in its order; board is the scoreboard when the loop ends
\* or returns; path names the statement that ended the call.
detect(m, id, input, options) ==
  DetectIn(m, id, String(input), options,
           LocaleTags(options.languages, options.countries))

----------------------------------------------------------------------------
(* The cache specification: construction and eviction *)

\* the (currency, locale) arguments callers pass: supported pairs, a tag in
\* another case, an unsupported code, a malformed tag, and a code and a tag
\* that concatenate to the key of a supported pair
CallArgs ==
  { <<"USD", "en-US">>, <<"USD", "en-us">>, <<"CAD", "fr-CA">>,
    <<"INVALID", "en-US">>, <<"USD", "en_US">>, <<"INVALID", "en_US">>,
    <<"USD-en", "US">> }

\* what the previous operation was, for claims about two calls in a row
Summary(op) ==
  [op |-> op.op, c |-> op.c, l |-> op.l, removed |-> op.removed,
   returned |-> op.returned]

Init ==
  /\ cache = EmptyCache
  /\ nextId = 1
  /\ last = [op |-> "init", c |-> "", l |-> "", removed |-> {}, returned |-> {}]

\* one construction through entry ("new" or "get"); returned holds the
\* profile the call yielded, if it yielded one
Construction(entry, c, l, doNotThrow) ==
  LET r == IF entry = "new" THEN construct(cache, nextId, c, l, doNotThrow)
           ELSE get(cache, nextId, c, l, doNotThrow)
  IN  /\ r.derived => nextId <= MaxObjects
      /\ cache' = r.cache
      /\ nextId' = IF r.derived THEN nextId + 1 ELSE nextId
      /\ last' = [op |-> entry, c |-> c, l |-> l, doNotThrow |-> doNotThrow,
                  kind |-> r.kind, value |-> r.value, derived |-> r.derived,
                  removed |-> {},
                  returned |-> IF r.kind = "instance" THEN {r.value} ELSE {},
                  prev |-> Summary(last)]

New == \E a \in CallArgs, d \in BOOLEAN : Construction("new", a[1], a[2], d)

Get == \E a \in CallArgs, d \in BOOLEAN : Construction("get", a[1], a[2], d)

\* CurrencyInfo.cache(c, l, null)
Evict ==
  \E a \in CallArgs :
    /\ cache' = cacheDelete(cache, a[1], a[2])
    /\ last' = [op |-> "evict", c |-> a[1], l |-> a[2], before |-> cache,
                removed |-> IF cacheHas(cache, a[1], a[2])
                            THEN {cache[dataKey(a[1], a[2])]} ELSE {},
                returned |-> {},
                prev |-> Summary(last)]
    /\ UNCHANGED nextId

Next == New \/ Get \/ Evict

Spec == Init /\ [][Next]_vars

----------------------------------------------------------------------------
(* The formatting specification: strip, format, the locator and detect on   *)
(* a cache that already holds the candidate profiles                        *)

\* the options of a caller who names the currencies and countries of the
\* defaults and the languages en and fr (the formatter data of the model
\* covers these)
ModelOptions ==
  [currencies |-> <<"USD", "CAD">>, languages |-> <<"en", "fr">>,
   countries |-> <<"US", "CA">>, assume |-> NoAssume]

FrenchCanadaOptions ==
  [currencies |-> <<"CAD">>, languages |-> <<"fr">>,
   countries |-> <<"CA">>, assume |-> NoAssume]

\* the same with an assume object naming a supported pair ...
AssumeOptions ==
  [ModelOptions EXCEPT
     !.assume = [given |-> TRUE, locale |-> "en-US", currency |-> "USD"]]

\* ... and one naming a currency the runtime does not support
AssumeUnsupportedOptions ==
  [ModelOptions EXCEPT
     !.assume = [given |-> TRUE, locale |-> "en-US", currency |-> "INVALID"]]

\* the currencies of the defaults in the other order
CadFirstOptions ==
  [ModelOptions EXCEPT !.currencies = <<"CAD", "USD">>]

\* a caller in Panama
PanamaOptions ==
  [currencies |-> <<"PAB">>, languages |-> <<"es">>,
   countries |-> <<"PA">>, assume |-> NoAssume]

\* a caller in Germany
GermanyOptions ==
  [currencies |-> <<"EUR">>, languages |-> <<"de">>,
   countries |-> <<"DE">>, assume |-> NoAssume]

\* a currency code the runtime does not support, with a supported assume
UnsupportedCurrencyOptions ==
  [AssumeOptions EXCEPT !.currencies = <<"INVALID">>]

\* a country code in lower case: the tag en-us is well formed but not in
\* canonical form
LowerCaseCountryOptions ==
  [currencies |-> <<"USD">>, languages |-> <<"en">>,
   countries |-> <<"us">>, assume |-> NoAssume]

DetectOptions ==
  {ModelOptions, FrenchCanadaOptions, AssumeOptions, AssumeUnsupportedOptions,
   CadFirstOptions, PanamaOptions, GermanyOptions,
   UnsupportedCurrencyOptions, LowerCaseCountryOptions}

\* the options under which a rendering of profile P is handed to detect: P
\* is one of their candidates
RenderOptions(P) ==
  CASE P.currency = "PAB" -> PanamaOptions
    [] P.currency = "EUR" -> GermanyOptions
    [] OTHER -> ModelOptions

\* the cache a first detect call with ModelOptions leaves
Warm == detect(EmptyCache, 1, StrV(<<"x">>), ModelOptions)

\* the (currency, locale) pairs of the profiles used
FmtArgs ==
  ({"USD", "CAD"} \X {"en-US", "fr-US", "en-CA", "fr-CA"})
    \cup {<<"PAB", "es-PA">>, <<"EUR", "de-DE">>}

IntParts ==
  {<<"0">>}
  \cup {SubSeq(ReferenceNumber.ip, 1, k) : k \in 1..MaxIntDigits}
  \cup {[i \in 1..k |-> "9"] : k \in 1..MaxIntDigits}

FracParts == UNION {[1..k -> {"4", "9"}] : k \in 0..MaxFracDigits}

\* the numbers handed to format
Amounts == {Num(neg, ip, fp) : neg \in BOOLEAN, ip \in IntParts, fp \in FracParts}

\* strings handed to detect besides the profiles' own renderings
DetectInputs ==
  { <<>>,
    <<"$">>,
    <<"$", "N", "a", "N">>,
    <<"N", "a", "N", NBSP, "$">>,
    <<"a", "b", "c">>,
    <<"1">>,
    <<"$", "1">>,
    <<"$", "1", ".", "0", "0">>,
    <<"B", "/", ".", NBSP, "1", ",", "2", "3", "4", ".", "5">>,
    <<"1", SP, "$">>,
    <<"1", "2", "3", ",", "0", "0">>,
    <<"1", "$", "0", "0">>,
    <<"1", ",", "2", "3", "4", ".", "5", "6">>,
    <<"$", "1", ",", "2", "3", "4", ".", "5", "6", ".", "2", "3">>,
    <<"1", SP, "2", "3", "4", ",", "5", "6", SP, "$">>,
    <<"1", ",", "2", "3", "4", ",", "5", "6", "7", ".", "0", "0", "$">> }

\* typed parts handed to the locator: well-formed parts and entries the
\* filter drops (no type, or no value)
PartChoices ==
  { [type |-> "currency", value |-> <<"$">>],
    [type |-> "integer", value |-> <<"1", "0", "0">>],
    [type |-> "currency", value |-> <<>>],
    [type |-> "", value |-> <<"$">>] }

LocateInputs ==
  {StrV(s) : s \in DetectInputs}
  \cup {StrV(<<"1", "0", "0", "$">>), StrV(<<"C", "A", "$", "1">>),
        StrV(<<"1", "C", "A", "$">>)}
  \cup {PartsV(ps) : ps \in UNION {[1..k -> PartChoices] : k \in 0..2}}

\* the call about to be made: its function and its arguments
Calls ==
  {[op |-> "call", fn |-> "format", a |-> a, n |-> n] : a \in FmtArgs, n \in Amounts}
  \cup {[op |-> "call", fn |-> "locate", a |-> a, v |-> v] :
          a \in FmtArgs, v \in LocateInputs}
  \cup {[op |-> "call", fn |-> "detect", s |-> s, o |-> o] :
          s \in DetectInputs, o \in DetectOptions}

InitFmt ==
  /\ cache = Warm.cache
  /\ nextId = Warm.nextId
  /\ last \in Calls

\* P = CurrencyInfo.get(c, l); P.format(n)
Format ==
  /\ last.op = "call" /\ last.fn = "format"
  /\ LET r == get(cache, nextId, last.a[1], last.a[2], FALSE)
     IN  /\ r.kind = "instance"
         /\ cache' = r.cache
         /\ nextId' = IF r.derived THEN nextId + 1 ELSE nextId
         /\ last' = [op |-> "format", P |-> r.value, n |-> last.n,
                     s |-> format(r.value, NumV(last.n))]

\* P.strip(s) of the string P.format just produced
Strip ==
  /\ last.op = "format"
  /\ last' = [op |-> "strip", P |-> last.P, n |-> last.n, s |-> last.s,
              back |-> strip(last.P, StrV(last.s))]
  /\ UNCHANGED <<cache, nextId>>

\* P.format(P.strip(s))
Reformat ==
  /\ last.op = "strip"
  /\ last' = [op |-> "reformat", P |-> last.P, n |-> last.n, s |-> last.s,
              back |-> last.back, again |-> format(last.P, NumV(last.back))]
  /\ UNCHANGED <<cache, nextId>>

\* P.symbol.locator on the string P.format produced and on the parts the
\* formatter gives for the same rendering
LocateRendered ==
  /\ last.op = "format"
  /\ last' = [op |-> "locateRendered", P |-> last.P, n |-> last.n, s |-> last.s,
              ofString |-> locator(last.P, StrV(last.s)),
              ofParts |-> locator(last.P,
                                  PartsV(formatToParts(last.P.locale, last.P.currency,
                                                       strip(last.P, NumV(last.n)))))]
  /\ UNCHANGED <<cache, nextId>>

\* P.symbol.locator(value)
Locate ==
  /\ last.op = "call" /\ last.fn = "locate"
  /\ LET r == get(cache, nextId, last.a[1], last.a[2], FALSE)
     IN  /\ r.kind = "instance"
         /\ cache' = r.cache
         /\ nextId' = IF r.derived THEN nextId + 1 ELSE nextId
         /\ last' = [op |-> "locate", P |-> r.value, input |-> last.v,
                     out |-> locator(r.value, last.v)]

DetectStep(input, options, rendered) ==
  LET r == detect(cache, nextId, input, options)
  IN  /\ cache' = r.cache
      /\ nextId' = r.nextId
      /\ last' = [op |-> "detect", input |-> input, options |-> options,
                  rendered |-> rendered, kind |-> r.kind,
                  candidates |-> r.candidates, board |-> r.board,
                  path |-> r.path,
                  value |-> IF r.kind = "result" THEN r.value ELSE [score |-> 0]]

\* CurrencyInfo.detect(P.format(n))
DetectRendered ==
  /\ last.op = "format"
  /\ DetectStep(StrV(last.s), RenderOptions(last.P), TRUE)

\* CurrencyInfo.detect(input, options)
Detect ==
  /\ last.op = "call" /\ last.fn = "detect"
  /\ DetectStep(StrV(last.s), last.o, FALSE)

NextFmt ==
  Format \/ Strip \/ Reformat \/ LocateRendered \/ Locate
    \/ DetectRendered \/ Detect

SpecFmt == InitFmt /\ [][NextFmt]_vars

----------------------------------------------------------------------------
(* Properties of the cache specification (Spec) *)

\* C1: getProfile is idempotent for every supported (currency, locale)
\* argument pair, tags in another case such as 'en-us' included: with no
\* evict in between, two calls with identical arguments that each yield a
\* Profile yield the same object.  The two calls are taken one right after
\* the other; profiles carry their identity, so equality is identity.
C1_GetIsIdempotent ==
  ( /\ last.op = "get" /\ last.prev.op = "get"
    /\ last.c = last.prev.c /\ last.l = last.prev.l
    /\ last.returned # {} /\ last.prev.returned # {} )
  => last.returned = last.prev.returned

\* C2: construction errors follow the caller's policy on both entry points:
\* a call of new or of get that yields no Profile returns the error when
\* doNotThrow is true and raises it when doNotThrow is false.
C2_ErrorPolicyOnBothEntries ==
  (last.op \in {"new", "get"} /\ last.kind # "instance")
  => (last.doNotThrow <=> last.kind = "returned")

\* C3: in every cache state, getProfile(c, l) with c outside the supported
\* currencies signals TypeError, and with c supported but l not
\* canonicalizable signals RangeError; such a call never yields a Profile.
C3_UnsupportedNeverYieldsProfile ==
  last.op = "get" =>
    /\ last.c \notin SupportedCurrencies
         => (last.kind # "instance" /\ last.value = "TypeError")
    /\ (last.c \in SupportedCurrencies /\ ~IsWellFormedLocale(last.l))
         => (last.kind # "instance" /\ last.value = "RangeError")

\* C4: after evict(c, l) the cache holds no entry for that key and every
\* other key maps to the same Profile as before; evict of an absent key
\* changes nothing; and when the evicted Profile was the one of the pair
\* (c, l), the next get(c, l) derives again and returns a Profile that is
\* not the evicted object.
C4_EvictThenRederive ==
  /\ last.op = "evict" =>
       /\ ~cacheHas(cache, last.c, last.l)
       /\ DOMAIN cache = DOMAIN last.before \ {dataKey(last.c, last.l)}
       /\ \A k \in DOMAIN cache : cache[k] = last.before[k]
       /\ (dataKey(last.c, last.l) \notin DOMAIN last.before => cache = last.before)
  /\ ( /\ last.op = "get" /\ last.prev.op = "evict"
       /\ last.c = last.prev.c /\ last.l = last.prev.l
       /\ \E Q \in last.prev.removed : Q.currency = last.c /\ Q.locale = last.l )
     => ( /\ last.kind = "instance"
          /\ last.derived
          /\ \A Q \in last.prev.removed : last.value.id # Q.id
          /\ cacheHas(cache, last.c, last.l)
          /\ cache[dataKey(last.c, last.l)] = last.value )

\* C4's case: a get right after the evict of its own cached pair, with
\* another profile still cached
C4_Witness ==
  /\ last.op = "get" /\ last.prev.op = "evict"
  /\ last.c = last.prev.c /\ last.l = last.prev.l
  /\ \E Q \in last.prev.removed : Q.currency = last.c /\ Q.locale = last.l
  /\ last.kind = "instance" /\ last.derived
  /\ Cardinality(DOMAIN cache) > 1

----------------------------------------------------------------------------
(* Properties of the formatting specification (SpecFmt) *)

\* C5: round trip: for every profile P and every number n, with
\* s = format(P, n), strip(P, s) == n, also for profiles whose group
\* separator is a no-break space (fr-CA) and profiles whose symbol contains
\* a separator character.  Stated for the n of at most two fraction digits,
\* which the rendering does not round.
C5_StripInvertsFormat ==
  (last.op = "strip" /\ Len(last.n.fp) <= 2) => NumEq(last.back, last.n)

\* C6: idempotent re-render: for every profile P and every string s that
\* P's own format produced, format(P, strip(P, s)) == s.
C6_ReformatReproduces ==
  last.op = "reformat" => last.again = last.s

\* C7: for every candidate profile P and every amount n,
\* detect(format(P, n)) returns a non-null result with score 1.0 whose
\* formatted field equals the input.
C7_DetectRecognisesRendering ==
  (last.op = "detect" /\ last.rendered)
  => ( /\ last.kind = "result"
       /\ last.value.score = ScoreUnit
       /\ last.value.formatted = String(last.input) )

\* C8: the locator classifies by the index of the currency symbol, for
\* every string and every parts sequence, the empty string and an empty or
\* all-invalid parts sequence included: no match gives missing, index 0
\* leading, the last valid position trailing, any other index within.
C8_LocatorClassifies ==
  last.op = "locate" =>
    LET index == IF last.input.t = "array"
                 THEN FindType(ValidParts(last.input.v), "currency", 0)
                 ELSE indexOf(String(last.input), last.P.separators.symbol)
        length == IF last.input.t = "array"
                  THEN Len(ValidParts(last.input.v))
                  ELSE Len(String(last.input))
    IN  last.out = IF index = -1 THEN "missing"
                   ELSE IF index = 0 THEN "leading"
                        ELSE IF index = length - 1 THEN "trailing"
                             ELSE "within"

\* C9: for every profile P and number n, the locator gives the same
\* classification for the rendered string of n and for the typed parts of
\* the same rendering, also when the symbol is longer than one character.
C9_LocatorFormsAgree ==
  last.op = "locateRendered" => last.ofString = last.ofParts

\* C10 as stated: every non-null result of detect has a score within
\* [0.0, 1.0], and a candidate that reproduces the input exactly always
\* yields a result with score exactly 1.0.
C10_AsStated ==
  last.op = "detect" =>
    /\ last.kind = "result" => last.value.score \in 0..ScoreUnit
    /\ (\E i \in 1..Len(last.candidates) :
          format(last.candidates[i],
                 NumV(strip(last.candidates[i], last.input))) = String(last.input))
       => (last.kind = "result" /\ last.value.score = ScoreUnit)

\* C10, amended: every non-null result of detect (exact match, scored
\* winner, assume fallback) has a score within [0.0, 1.0], and a candidate
\* whose stripped amount is a number and that reproduces the input exactly
\* yields a result with score exactly 1.0.
C10_ScoreWithinUnit ==
  last.op = "detect" =>
    /\ last.kind = "result" => last.value.score \in 0..ScoreUnit
    /\ (\E i \in 1..Len(last.candidates) :
          /\ ~isNaN(strip(last.candidates[i], last.input))
          /\ format(last.candidates[i],
                    NumV(strip(last.candidates[i], last.input))) = String(last.input))
       => (last.kind = "result" /\ last.value.score = ScoreUnit)

\* C10's case: detect returned the exact match of a candidate whose amount
\* is a number
C10_Witness ==
  /\ last.op = "detect" /\ last.kind = "result"
  /\ last.value.score = ScoreUnit
  /\ ~isNaN(last.value.amount)
  /\ last.value.formatted = String(last.input)
  /\ \E i \in 1..Len(last.candidates) : last.candidates[i] = last.value.currencyInfo

\* C11 as stated: when more than one candidate reproduces the input
\* exactly, detect returns the first of them in currency-major, then-locale
\* order (outer over the caller's currencies, inner over the candidate
\* locales).
C11_AsStated ==
  last.op = "detect" =>
    LET tags == LocaleTags(last.options.languages, last.options.countries)
        At(xs, x) == CHOOSE i \in 1..Len(xs) : xs[i] = x
        Exact(P) == /\ ~isNaN(strip(P, last.input))
                    /\ format(P, NumV(strip(P, last.input))) = String(last.input)
        E == {i \in 1..Len(last.candidates) : Exact(last.candidates[i])}
        Before(P, Q) ==
          \/ At(last.options.currencies, P.currency) < At(last.options.currencies, Q.currency)
          \/ /\ P.currency = Q.currency
             /\ At(tags, P.locale) <= At(tags, Q.locale)
    IN  E # {} =>
          /\ last.kind = "result"
          /\ \E i \in E : /\ last.value.currencyInfo = last.candidates[i]
                          /\ \A j \in E : Before(last.candidates[i], last.candidates[j])

\* C11, amended: when one or more candidates reproduce the input exactly,
\* detect returns the first of them in locale-major, then-currency order
\* (outer over the candidate locales, countries outer and languages inner;
\* inner over the caller's currencies), and the result is the exact-match
\* object of that candidate alone, whatever the candidates after it are.
C11_FirstInLocaleMajorOrder ==
  last.op = "detect" =>
    LET tags == LocaleTags(last.options.languages, last.options.countries)
        At(xs, x) == CHOOSE i \in 1..Len(xs) : xs[i] = x
        Exact(P) == /\ ~isNaN(strip(P, last.input))
                    /\ format(P, NumV(strip(P, last.input))) = String(last.input)
        E == {i \in 1..Len(last.candidates) : Exact(last.candidates[i])}
        Before(P, Q) ==
          \/ At(tags, P.locale) < At(tags, Q.locale)
          \/ /\ P.locale = Q.locale
             /\ At(last.options.currencies, P.currency)
                  <= At(last.options.currencies, Q.currency)
    IN  E # {} =>
          /\ last.kind = "result"
          /\ \E i \in E :
               /\ \A j \in E : Before(last.candidates[i], last.candidates[j])
               /\ last.value.currencyInfo = last.candidates[i]
               /\ last.value.locale = last.candidates[i].locale
               /\ last.value.amount = strip(last.candidates[i], last.input)
               /\ last.value.formatted = String(last.input)
               /\ last.value.score = ScoreUnit

\* C11's case: two candidates of different locales and currencies reproduce
\* the input, and detect returned the one whose locale comes first although
\* its currency comes second
C11_Witness ==
  /\ last.op = "detect" /\ last.kind = "result" /\ last.path = "exact"
  /\ \E j \in 1..Len(last.candidates) :
       /\ last.candidates[j].locale # last.value.currencyInfo.locale
       /\ last.candidates[j].currency = last.options.currencies[1]
       /\ last.value.currencyInfo.currency # last.options.currencies[1]
       /\ ~isNaN(strip(last.candidates[j], last.input))
       /\ format(last.candidates[j], NumV(strip(last.candidates[j], last.input)))
            = String(last.input)

\* C12 as stated: a candidate for which the input contains more than one
\* occurrence of that candidate's decimal separator is discarded outright:
\* it is never written to the scoreboard and never supplies the result of
\* detect outside the assume fallback.
C12_AsStated ==
  last.op = "detect" =>
    \A i \in 1..Len(last.candidates) :
      MatchCount(String(last.input), regexDecimal(last.candidates[i])) > 1 =>
        /\ \A k \in 1..Len(last.board) :
             last.board[k].currencyInfo # last.candidates[i]
        /\ (last.kind = "result" /\ last.path # "assume")
             => last.value.currencyInfo # last.candidates[i]

\* C12, amended: a candidate for which the input contains more than one
\* occurrence of that candidate's decimal separator is never written to the
\* scoreboard and never supplies a scored result; it supplies the result
\* only as an exact match, which is returned before the separators are
\* counted (a symbol that contains the decimal character, "B/.").
C12_DiscardedUnlessExact ==
  last.op = "detect" =>
    \A i \in 1..Len(last.candidates) :
      MatchCount(String(last.input), regexDecimal(last.candidates[i])) > 1 =>
        /\ \A k \in 1..Len(last.board) :
             last.board[k].currencyInfo # last.candidates[i]
        /\ (last.kind = "result" /\ last.path = "scored")
             => last.value.currencyInfo # last.candidates[i]
        /\ (last.kind = "result" /\ last.path = "exact"
              /\ last.value.currencyInfo = last.candidates[i])
             => last.value.formatted = String(last.input)

\* C12's case: a candidate whose stripped amount is a number and whose
\* rendering differs from the input was discarded for its two decimal
\* separators, leaving the scoreboard empty
C12_Witness ==
  /\ last.op = "detect" /\ last.kind = "null" /\ last.board = <<>>
  /\ \E i \in 1..Len(last.candidates) :
       /\ MatchCount(String(last.input), regexDecimal(last.candidates[i])) > 1
       /\ ~isNaN(strip(last.candidates[i], last.input))

\* C13: detect never raises, for any input and any options: an unsupported
\* currency code in currencies, a language and country combination that is
\* not in canonical form, or an invalid assume pair all end in a result or
\* in the no-result signal.
C13_DetectNeverRaises ==
  last.op = "detect" => last.kind \in {"result", "null"}

\* C14: if no candidate reproduces the input exactly, no scoreboard entry
\* has score > 0, and assume supplies both a locale and a currency, detect
\* returns a result with score 0 whose profile is
\* getProfile(assume.currency, assume.locale), amount = strip(profile, input)
\* and formatted = format(profile, amount), also when amount is not a
\* number; whenever some candidate matches exactly or scores > 0, assume has
\* no effect on the result.  (The calls are those made on the cache Warm.)
C14_AssumeFallback ==
  (last.op = "detect" /\ last.options.assume.given
     /\ last.options.assume.locale # "" /\ last.options.assume.currency # "") =>
    LET a == last.options.assume
        Exact(P) == /\ ~isNaN(strip(P, last.input))
                    /\ format(P, NumV(strip(P, last.input))) = String(last.input)
        matched == \/ \E i \in 1..Len(last.candidates) : Exact(last.candidates[i])
                   \/ \E k \in 1..Len(last.board) : last.board[k].score > 0
        profile == get(Warm.cache, Warm.nextId, a.currency, a.locale, FALSE)
        plain == detect(Warm.cache, Warm.nextId, last.input,
                        [last.options EXCEPT !.assume = NoAssume])
    IN  IF matched
        THEN /\ last.kind = "result"
             /\ plain.kind = "result"
             /\ last.value = plain.value
        ELSE /\ last.kind = "result"
             /\ last.value.score = 0
             /\ profile.kind = "instance"
             /\ last.value.currencyInfo = profile.value
             /\ last.value.amount = strip(profile.value, last.input)
             /\ last.value.formatted
                  = format(profile.value, NumV(strip(profile.value, last.input)))

\* C15: detect returns the no-result signal if and only if no candidate
\* reproduces the input exactly, no scoreboard entry has score > 0, and
\* assume is absent or lacks a locale or a currency; hence a non-null result
\* with score 0 comes from the assume fallback only.
C15_NullIffNothingResolves ==
  last.op = "detect" =>
    LET a == last.options.assume
        Exact(P) == /\ ~isNaN(strip(P, last.input))
                    /\ format(P, NumV(strip(P, last.input))) = String(last.input)
        matched == \/ \E i \in 1..Len(last.candidates) : Exact(last.candidates[i])
                   \/ \E k \in 1..Len(last.board) : last.board[k].score > 0
        assumed == a.given /\ a.locale # "" /\ a.currency # ""
    IN  /\ last.kind = "null" <=> (~matched /\ ~assumed)
        /\ (last.kind = "result" /\ last.value.score = 0) => last.path = "assume"

C17_ResultFields ==
  (last.op = "detect" /\ last.kind = "result") =>
    /\ {"locale", "amount", "formatted", "original", "currencyInfo", "score"}
         \subseteq DOMAIN last.value
    /\ last.value.original = String(last.input)

\* C18: the result of a successful detection exposes the detected currency
\* code in its currency field, as the assume fallback result does.
C18_ResultCurrencyField ==
  (last.op = "detect" /\ last.kind = "result") =>
    /\ "currency" \in DOMAIN last.value
    /\ last.value.currency = last.value.currencyInfo.currency

\* C19: the scoreboard entry of a locale is replaced only by a candidate
\* with a strictly greater score: when the candidate loop has run to its
\* end, the entry of each locale is the first-seen candidate with the
\* highest score among the scored candidates of that locale.
C19_FirstSeenHighestKept ==
  (last.op = "detect" /\ last.path \in {"scored", "none", "assume"}) =>
    LET Entry(P) == PassWith(P, String(last.input), strip(P, last.input), <<>>).board
        Scored(l) == {i \in 1..Len(last.candidates) :
                        /\ last.candidates[i].locale = l
                        /\ Entry(last.candidates[i]) # <<>>}
    IN  \A k \in 1..Len(last.board) :
          \E i \in Scored(last.board[k].locale) :
            /\ last.board[k].currencyInfo = last.candidates[i]
            /\ last.board[k].score = Entry(last.candidates[i])[1].score
            /\ \A j \in Scored(last.board[k].locale) :
                 /\ Entry(last.candidates[j])[1].score <= last.board[k].score
                 /\ Entry(last.candidates[j])[1].score = last.board[k].score => i <= j

\* C20: the reduction of the scoreboard selects the entry with the highest
\* score; among entries with the same top score the first in scoreboard
\* order is selected and a later entry with an equal score does not replace
\* it; an entry with score 0 is never selected.
C20_ReduceTakesFirstHighest ==
  (last.op = "detect" /\ last.path \in {"scored", "none", "assume"}) =>
    LET positive == {k \in 1..Len(last.board) : last.board[k].score > 0}
        Top(k) == \A j \in 1..Len(last.board) :
                    /\ last.board[j].score <= last.board[k].score
                    /\ last.board[j].score = last.board[k].score => k <= j
    IN  IF positive = {}
        THEN last.path # "scored"
        ELSE /\ last.path = "scored" /\ last.kind = "result"
             /\ \E k \in positive :
                  /\ Top(k)
                  /\ last.value.locale = last.board[k].locale
                  /\ last.value.currencyInfo = last.board[k].currencyInfo
                  /\ last.value.score = last.board[k].score

\* C20's case: two scoreboard entries share the top score, a third entry
\* scores 0, and the first of the two was selected
C20_Witness ==
  /\ last.op = "detect" /\ last.path = "scored" /\ last.kind = "result"
  /\ \E j, k \in 1..Len(last.board) :
       /\ j < k
       /\ last.board[j].score = last.value.score
       /\ last.board[k].score = last.value.score
       /\ last.value.currencyInfo = last.board[j].currencyInfo
  /\ \E z \in 1..Len(last.board) : last.board[z].score = 0

C22_StripKeepsPlainNumber ==
  last.op = "format" =>
    /\ NumEq(strip(last.P, NumV(last.n)), last.n)
    /\ \/ last.s = formatterFormat(last.P.locale, last.P.currency, last.n)
       \/ IsZero(last.n)

\* C23: if the string form of the input contains no digit character, strip
\* yields not-a-number for every candidate profile, so detect without
\* assume returns the no-result signal (this covers the empty string and an
\* input consisting only of the currency symbol or of separators).  Calls
\* that raise (C13) are left aside.
C23_NoDigitNoResult ==
  (/\ last.op = "detect" /\ last.kind # "thrown"
   /\ \A i \in 1..Len(String(last.input)) : ~IsDigit(String(last.input)[i]))
    => /\ \A i \in 1..Len(last.candidates) :
            isNaN(strip(last.candidates[i], last.input))
       /\ ~last.options.assume.given => last.kind = "null"

====
